---- MODULE Spec2Model ----
(***************************************************************************)
(* Clone-detection server: a model of backend/server.js (the /check-clone  *)
(* handler with the WHOIS cache) and of the second server file of the      *)
(* repository (src/unnamed/part_000: the same handler scored by            *)
(* levenshteinDistance, with an uncached WHOIS lookup).                    *)
(*                                                                         *)
(* JavaScript strings are sequences of one-character strings, so that      *)
(* startsWith, substring, split, trim and toLowerCase are computed.        *)
(* A similarity score is an exact rational <<num, den>> (den > 0): for     *)
(* the lengths a hostname can have, the IEEE-754 value of                  *)
(* (1 - d / m) * 100 compares with 80 and with other scores exactly as     *)
(* the rational does.                                                      *)
(***************************************************************************)
EXTENDS Integers, Sequences, FiniteSets, TLC

\* ------------------------------------------------------------ bounds

\* Number of /check-clone requests the server receives in one behaviour.
MaxReqs == 2

Reqs == 1..MaxReqs

\* Longest string given to levenshteinDistance when it is called on its own.
MaxLen == 3

\* Most domains in the Set scanned when the similarity loop runs on its own.
MaxStored == 3

\* Most "www." labels put in front of a host given to extractMainDomain when
\* it is called on its own.
MaxWww == 2

\* ------------------------------------------------------------ strings

S_http  == <<"h","t","t","p",":","/","/">>
S_https == <<"h","t","t","p","s",":","/","/">>
S_www   == <<"w","w","w",".">>
S_original_url == <<"o","r","i","g","i","n","a","l","_","u","r","l">>

\* String.prototype.startsWith
StartsWith(s, p) == Len(s) >= Len(p) /\ SubSeq(s, 1, Len(p)) = p

\* String.prototype.substring(n): the string from index n (0-based) on
Substring(s, n) == SubSeq(s, n + 1, Len(s))

ToLowerChar(c) ==
    CASE c = "A" -> "a"
      [] c = "B" -> "b"
      [] c = "C" -> "c"
      [] c = "I" -> "i"
      [] c = "O" -> "o"
      [] c = "W" -> "w"
      [] OTHER -> c

\* String.prototype.toLowerCase
ToLowerCase(s) == [i \in 1..Len(s) |-> ToLowerChar(s[i])]

IsSpace(c) == c = " "

RECURSIVE TrimStart(_)
TrimStart(s) ==
    IF s # <<>> /\ IsSpace(Head(s)) THEN TrimStart(Tail(s)) ELSE s

RECURSIVE TrimEnd(_)
TrimEnd(s) ==
    IF s # <<>> /\ IsSpace(s[Len(s)]) THEN TrimEnd(SubSeq(s, 1, Len(s) - 1)) ELSE s

\* String.prototype.trim
Trim(s) == TrimEnd(TrimStart(s))

\* String.prototype.split(","): the fields between the commas, left to right;
\* cur is the field being read, acc the fields already closed.
RECURSIVE SplitFrom(_, _, _)
SplitFrom(s, cur, acc) ==
    IF s = <<>> THEN Append(acc, cur)
    ELSE IF Head(s) = "," THEN SplitFrom(Tail(s), <<>>, Append(acc, cur))
    ELSE SplitFrom(Tail(s), Append(cur, Head(s)), acc)

Split(line) == SplitFrom(line, <<>>, <<>>)

\* The elements of a sequence, as a set
Range(q) == {q[i] : i \in 1..Len(q)}

\* Set.prototype.add on a Set kept in insertion order: an element already
\* present keeps its place.
SetAdd(q, x) == IF x \in Range(q) THEN q ELSE Append(q, x)

\* ------------------------------------------------------------ loadDomains

\* rl.on("line"): a line of exactly two fields whose second is not the header
\* name contributes its second field, trimmed and lower-cased.
OnLine(domains, line) ==
    LET parts == Split(line) IN
    IF Len(parts) = 2 /\ parts[2] # S_original_url
    THEN SetAdd(domains, ToLowerCase(Trim(parts[2])))
    ELSE domains

RECURSIVE ReadLines(_, _)
ReadLines(domains, lines) ==
    IF lines = <<>> THEN domains
    ELSE ReadLines(OnLine(domains, Head(lines)), Tail(lines))

\* loadDomains: the Set resolved on "close"
loadDomains(csv) == ReadLines(<<>>, csv)

\* ------------------------------------------------------------ extractMainDomain

RECURSIVE TakeUntil(_, _)
TakeUntil(s, stops) ==
    IF s = <<>> \/ Head(s) \in stops THEN <<>>
    ELSE <<Head(s)>> \o TakeUntil(Tail(s), stops)

\* new URL(inputUrl).hostname for an input that begins with http:// or
\* https://: the authority runs to the first "/", "?" or "#", the host to
\* the port's ":"; an empty host or a host with a space is not a URL (the
\* constructor throws); the host is lower-cased.
UrlHostname(inputUrl) ==
    LET rest == IF StartsWith(inputUrl, S_https)
                THEN Substring(inputUrl, Len(S_https))
                ELSE Substring(inputUrl, Len(S_http))
        authority == TakeUntil(rest, {"/", "?", "#"})
        host == TakeUntil(authority, {":"})
    IN  IF host = <<>> \/ \E i \in 1..Len(host) : IsSpace(host[i])
        THEN [threw |-> TRUE, hostname |-> <<>>]
        ELSE [threw |-> FALSE, hostname |-> ToLowerCase(host)]

\* Every leading "www." removed
RECURSIVE StripAllWww(_)
StripAllWww(h) == IF StartsWith(h, S_www) THEN StripAllWww(Substring(h, 4)) ELSE h

\* extractMainDomain stripping "www." for as long as the hostname starts with it
extractMainDomainStripAll(inputUrl) ==
    LET url == IF ~StartsWith(inputUrl, S_http) /\ ~StartsWith(inputUrl, S_https)
               THEN S_https \o inputUrl
               ELSE inputUrl
        parsed == UrlHostname(url)
    IN  IF parsed.threw
        THEN [null |-> TRUE, hostname |-> <<>>]
        ELSE [null |-> FALSE, hostname |-> StripAllWww(parsed.hostname)]

\* extractMainDomain: [null |-> TRUE] is the null of the catch branch.
extractMainDomain(inputUrl) ==
    LET url == IF ~StartsWith(inputUrl, S_http) /\ ~StartsWith(inputUrl, S_https)
               THEN S_https \o inputUrl
               ELSE inputUrl
        parsed == UrlHostname(url)
    IN  IF parsed.threw
        THEN [null |-> TRUE, hostname |-> <<>>]
        ELSE [null |-> FALSE,
              hostname |-> IF StartsWith(parsed.hostname, S_www)
                           THEN Substring(parsed.hostname, 4)
                           ELSE parsed.hostname]

\* ------------------------------------------------------------ scores

\* `>=` for `>`
ScoreGe(s, t) == s[1] * t[2] >= t[1] * s[2]

\* similarity > highestSimilarity, on rationals <<num, den>>
ScoreGt(s, t) == s[1] * t[2] > t[1] * s[2]

ScoreEq(s, t) == s[1] * t[2] = t[1] * s[2]

\* The literal 80 of `highestSimilarity > 80`
Threshold == 80

\* `>= 80` for `> 80`
AboveThresholdOrEqual(s) == s[1] >= Threshold * s[2]

\* highestSimilarity > 80
AboveThreshold(s) == s[1] > Threshold * s[2]

Min2(x, y) == IF x <= y THEN x ELSE y

Max2(x, y) == IF x >= y THEN x ELSE y

\* The inner loop of levenshteinDistance for row i: cur holds matrix[i][0..j-1]
\* (cur[k] is matrix[i][k-1]), prev is matrix[i-1].
RECURSIVE FillRow(_, _, _, _, _)
FillRow(a, b, i, prev, cur) ==
    LET j == Len(cur) IN
    IF j > Len(a) THEN cur
    ELSE FillRow(a, b, i, prev,
                 Append(cur,
                        IF b[i] = a[j]
                        THEN prev[j]
                        ELSE Min2(prev[j] + 1, Min2(cur[j] + 1, prev[j + 1] + 1))))

\* The outer loop: rows 1..b.length, from row 0 = [0, 1, .., a.length]
RECURSIVE FillMatrix(_, _, _, _)
FillMatrix(a, b, i, prev) ==
    IF i > Len(b) THEN prev
    ELSE FillMatrix(a, b, i + 1, FillRow(a, b, i, prev, <<i>>))

\* matrix[b.length][a.length]
EditDistance(a, b) ==
    FillMatrix(a, b, 1, [k \in 1..(Len(a) + 1) |-> k - 1])[Len(a) + 1]

\* levenshteinDistance dividing by a.length for Math.max(a.length, b.length)
levenshteinDistanceByFirst(a, b) ==
    IF Len(a) = 0 THEN <<Len(b), 1>>
    ELSE IF Len(b) = 0 THEN <<Len(a), 1>>
    ELSE <<(Len(a) - EditDistance(a, b)) * 100, Len(a)>>

\* levenshteinDistance(a, b) of part_000: the other string's length when one
\* is empty, else (1 - distance / max(a.length, b.length)) * 100.
levenshteinDistance(a, b) ==
    IF Len(a) = 0 THEN <<Len(b), 1>>
    ELSE IF Len(b) = 0 THEN <<Len(a), 1>>
    ELSE LET m == Max2(Len(a), Len(b))
         IN  <<(m - EditDistance(a, b)) * 100, m>>

\* Number.prototype.toFixed(2) followed by "%": the score rounded to
\* hundredths (a tie goes up), as its integer part and two decimals.
ToFixed2(s) ==
    LET h == (s[1] * 200 + s[2]) \div (2 * s[2])
    IN  [whole |-> h \div 100, decimals |-> <<(h % 100) \div 10, h % 10>>]

\* The literal "100%" of the verified-domain verdict
HundredPercent == [whole |-> 100, decimals |-> <<>>]

\* ------------------------------------------------------------ inputs

D_abio  == <<"a","b",".","i","o">>
D_abcio == <<"a","b","c",".","i","o">>
D_abdio == <<"a","b","d",".","i","o">>
D_acio  == <<"a","c",".","i","o">>

L_header == <<"i","d",",">> \o S_original_url

\* The contents urls.csv may have: the header alone; one domain; two domains
\* with a duplicate in another case and padding, and a line of three fields;
\* a single line whose second field is empty.
CsvFiles ==
    { << L_header >>,
      << L_header, <<"1",",">> \o D_abio >>,
      << L_header, <<"1",","," ","A","B",".","i","o"," ">>, <<"2",",">> \o D_abcio,
         <<"3",",">> \o D_abio, <<"4",",","x",",","y">> >>,
      << <<"1",",">> >> }

\* req.body: suspect_url absent, or a string
RequestBodies ==
    { [present |-> FALSE, suspect_url |-> <<>>],
      [present |-> TRUE, suspect_url |-> <<>>],
      [present |-> TRUE, suspect_url |-> <<"a"," ","b">>],
      [present |-> TRUE, suspect_url |-> S_www],
      [present |-> TRUE, suspect_url |-> D_abio],
      [present |-> TRUE, suspect_url |-> S_http \o <<"W","W","W",".","A","B",".","i","o",":","8","0","/","p","?","q">>],
      [present |-> TRUE, suspect_url |-> S_https \o S_www \o D_abdio \o <<"/">>],
      [present |-> TRUE, suspect_url |-> D_acio] }

\* What whois.lookup passes to its callback: (err, data). A timeout is an err.
WhoisAnswers ==
    { [err |-> TRUE,  data |-> ""],
      [err |-> FALSE, data |-> ""],
      [err |-> FALSE, data |-> "Registrar: A"] }

\* What stringSimilarity.compareTwoStrings may return (a number in [0, 1]);
\* the library is not part of the repository, its result is an input.
CompareResults == { <<0, 1>>, <<4, 5>>, <<9, 10>> }

\* ------------------------------------------------------------ state

VARIABLES
    phase,          \* "loading", "listening" (app.listen was called) or "failed"
    storedDomains,  \* the Set storedDomains, in insertion (= iteration) order
    whoisCache,     \* the Map whoisCache: a function from domains to strings
    pc,             \* per request: "idle", "waiting" (for the whois callback), "done"
    frame,          \* per request: the handler's locals
    res,            \* per request: the response sent
    probe           \* the last call of a function made on its own, with its result

vars == <<phase, storedDomains, whoisCache, pc, frame, res, probe>>

Null == <<>>
Some(x) == <<x>>

NoResponse == [status |-> 0, error |-> "", verdict |-> Null]

NoFrame ==
    [body |-> [present |-> FALSE, suspect_url |-> <<>>], suspect_domain |-> <<>>,
     bestMatchDomain |-> Null, highestSimilarity |-> <<0, 1>>,
     called |-> FALSE, issued |-> FALSE, provider |-> "none"]

\* No function was called on its own
NoProbe == [fn |-> "none", a |-> <<>>, b |-> <<>>, out |-> <<>>, rev |-> <<>>]

Init ==
    /\ phase = "loading"
    /\ storedDomains = <<>>
    /\ whoisCache = << >>
    /\ pc = [r \in Reqs |-> "idle"]
    /\ frame = [r \in Reqs |-> NoFrame]
    /\ res = [r \in Reqs |-> NoResponse]
    /\ probe = NoProbe

\* ------------------------------------------------------------ startup

\* The load run again while the server listens
StartupAgain ==
    /\ phase \in {"loading", "listening"}
    /\ \E csv \in CsvFiles : storedDomains' = loadDomains(csv)
    /\ phase' = "listening"
    /\ UNCHANGED <<whoisCache, pc, frame, res, probe>>

\* storedDomains = await loadDomains(); app.listen(5000)
Startup ==
    /\ phase = "loading"
    /\ \E csv \in CsvFiles : storedDomains' = loadDomains(csv)
    /\ phase' = "listening"
    /\ UNCHANGED <<whoisCache, pc, frame, res, probe>>

\* loadDomains rejects (the stream's "error"): the catch logs, the server
\* never listens.
StartupFails ==
    /\ phase = "loading"
    /\ phase' = "failed"
    /\ UNCHANGED <<storedDomains, whoisCache, pc, frame, res, probe>>

\* ------------------------------------------------------------ the handler

\* Validate without the verified-domain return: a domain of the Reference Set
\* falls through to the similarity loop.
ValidateNoFastPath(body) ==
    IF ~body.present \/ body.suspect_url = <<>>
    THEN [kind |-> "rejected", error |-> "URL is required.", suspect_domain |-> <<>>]
    ELSE LET d == extractMainDomain(body.suspect_url) IN
         IF d.null \/ d.hostname = <<>>
         THEN [kind |-> "rejected", error |-> "Invalid URL format.", suspect_domain |-> <<>>]
         ELSE [kind |-> "fuzzy", error |-> "", suspect_domain |-> d.hostname]

\* Validate with `suspect_url === undefined` for `!suspect_url`: the empty
\* string reaches extractMainDomain.
ValidateUndefinedOnly(body) ==
    IF ~body.present
    THEN [kind |-> "rejected", error |-> "URL is required.", suspect_domain |-> <<>>]
    ELSE LET d == extractMainDomain(body.suspect_url) IN
         IF d.null \/ d.hostname = <<>>
         THEN [kind |-> "rejected", error |-> "Invalid URL format.", suspect_domain |-> <<>>]
         ELSE IF d.hostname \in Range(storedDomains)
         THEN [kind |-> "verified", error |-> "", suspect_domain |-> d.hostname]
         ELSE [kind |-> "fuzzy", error |-> "", suspect_domain |-> d.hostname]

\* Lines 107-132 of the handler, the same in both server files: the rejection
\* of a missing or empty suspect_url, the rejection of a URL that
\* extractMainDomain turns into null or "", the verified-domain return, or
\* the fall through to the similarity loop.
Validate(body) ==
    IF ~body.present \/ body.suspect_url = <<>>
    THEN [kind |-> "rejected", error |-> "URL is required.", suspect_domain |-> <<>>]
    ELSE LET d == extractMainDomain(body.suspect_url) IN
         IF d.null \/ d.hostname = <<>>
         THEN [kind |-> "rejected", error |-> "Invalid URL format.", suspect_domain |-> <<>>]
         ELSE IF d.hostname \in Range(storedDomains)
         THEN [kind |-> "verified", error |-> "", suspect_domain |-> d.hostname]
         ELSE [kind |-> "fuzzy", error |-> "", suspect_domain |-> d.hostname]

\* res.status(400).json({ error })
Rejection(error) == [status |-> 400, error |-> error, verdict |-> Null]

\* The res.json of the verified-domain return
VerifiedVerdict(body, domain) ==
    [status |-> 200, error |-> "",
     verdict |-> Some([suspect_url |-> body.suspect_url,
                       extracted_domain |-> domain,
                       best_match_domain |-> Some(domain),
                       matching_accuracy |-> HundredPercent,
                       isClone |-> FALSE,
                       whoisData |-> "WHOIS lookup skipped for verified domains."])]

\* The final res.json of the handler
Verdict(fr, whoisData) ==
    [status |-> 200, error |-> "",
     verdict |-> Some([suspect_url |-> fr.body.suspect_url,
                       extracted_domain |-> fr.suspect_domain,
                       best_match_domain |-> fr.bestMatchDomain,
                       matching_accuracy |-> ToFixed2(fr.highestSimilarity),
                       isClone |-> AboveThreshold(fr.highestSimilarity),
                       whoisData |-> whoisData])]

\* for (let storedDomain of storedDomains): sims[i] is the similarity computed
\* for the i-th stored domain; a later domain replaces the best one only
\* with a strictly greater similarity.
RECURSIVE ScanFrom(_, _, _, _)
ScanFrom(stored, sims, i, acc) ==
    IF i > Len(stored) THEN acc
    ELSE ScanFrom(stored, sims, i + 1,
                  IF ScoreGt(sims[i], acc.highestSimilarity)
                  THEN [bestMatchDomain |-> Some(stored[i]), highestSimilarity |-> sims[i]]
                  ELSE acc)

\* let bestMatchDomain = null; let highestSimilarity = 0; then the loop
BestMatch(stored, sims) ==
    ScanFrom(stored, sims, 1, [bestMatchDomain |-> Null, highestSimilarity |-> <<0, 1>>])

\* The handler's locals once the loop has run
FuzzyFrame(body, domain, sims) ==
    LET m == BestMatch(storedDomains, sims) IN
    [body |-> body, suspect_domain |-> domain,
     bestMatchDomain |-> m.bestMatchDomain, highestSimilarity |-> m.highestSimilarity,
     called |-> FALSE, issued |-> FALSE, provider |-> "none"]

\* The request is answered
Finish(r, fr, response) ==
    /\ pc' = [pc EXCEPT ![r] = "done"]
    /\ frame' = [frame EXCEPT ![r] = fr]
    /\ res' = [res EXCEPT ![r] = response]

\* The handler awaits the callback of whois.lookup
Await(r, fr) ==
    /\ pc' = [pc EXCEPT ![r] = "waiting"]
    /\ frame' = [frame EXCEPT ![r] = fr]
    /\ res' = res

\* Requests are numbered in their order of arrival
Arrives(r) ==
    /\ phase = "listening"
    /\ pc[r] = "idle"
    /\ \A q \in Reqs : q < r => pc[q] # "idle"

\* ------------------------------------------------------------ server.js

\* The callback without its whoisCache.set
CacheKeep(cache, domain, value) == cache

\* whoisCache.set(domain, value)
CacheSet(cache, domain, value) ==
    [k \in DOMAIN cache \cup {domain} |-> IF k = domain THEN value ELSE cache[k]]

\* The value the whois callback caches and resolves with
CallbackResult(ans) ==
    IF ans.err THEN "WHOIS lookup failed."
    ELSE IF ans.data = "" THEN "No WHOIS data found."
    ELSE ans.data

ProviderOutcome(ans) ==
    IF ans.err THEN "err" ELSE IF ans.data = "" THEN "empty" ELSE "data"

\* getCachedWhoisData without its whoisCache.has test
getCachedWhoisDataAlwaysLookup(r, fr) ==
    LET domain == fr.suspect_domain
        f == [fr EXCEPT !.called = TRUE]
    IN  \E threw \in BOOLEAN :
        IF threw
        THEN /\ whoisCache' = CacheSet(whoisCache, domain, "WHOIS data unavailable.")
             /\ Finish(r, [f EXCEPT !.issued = TRUE, !.provider = "throw"],
                       Verdict(f, "WHOIS data unavailable."))
        ELSE /\ whoisCache' = whoisCache
             /\ Await(r, [f EXCEPT !.issued = TRUE])

\* getCachedWhoisData(domain), up to the response or to the wait for the
\* callback: a cached value is returned; else whois.lookup is called, and
\* either throws (the catch caches and resolves "WHOIS data unavailable.")
\* or returns, its callback pending.
getCachedWhoisData(r, fr) ==
    LET domain == fr.suspect_domain
        f == [fr EXCEPT !.called = TRUE]
    IN  IF domain \in DOMAIN whoisCache
        THEN /\ whoisCache' = whoisCache
             /\ Finish(r, f, Verdict(f, whoisCache[domain]))
        ELSE \E threw \in BOOLEAN :
             IF threw
             THEN /\ whoisCache' = CacheSet(whoisCache, domain, "WHOIS data unavailable.")
                  /\ Finish(r, [f EXCEPT !.issued = TRUE, !.provider = "throw"],
                            Verdict(f, "WHOIS data unavailable."))
             ELSE /\ whoisCache' = whoisCache
                  /\ Await(r, [f EXCEPT !.issued = TRUE])

\* app.post("/check-clone") of server.js, from the request to the response
\* or to the await of a pending whois callback.
CheckClone(r, body) ==
    /\ Arrives(r)
    /\ LET v == Validate(body) IN
       CASE v.kind = "rejected" ->
              /\ Finish(r, [NoFrame EXCEPT !.body = body], Rejection(v.error))
              /\ whoisCache' = whoisCache
         [] v.kind = "verified" ->
              /\ Finish(r, [NoFrame EXCEPT !.body = body, !.suspect_domain = v.suspect_domain],
                        VerifiedVerdict(body, v.suspect_domain))
              /\ whoisCache' = whoisCache
         [] v.kind = "fuzzy" ->
              \E cmp \in [1..Len(storedDomains) -> CompareResults] :
                LET sims == [i \in 1..Len(storedDomains) |-> <<cmp[i][1] * 100, cmp[i][2]>>]
                    fr == FuzzyFrame(body, v.suspect_domain, sims)
                IN  IF AboveThreshold(fr.highestSimilarity)
                    THEN getCachedWhoisData(r, fr)
                    ELSE /\ Finish(r, fr, Verdict(fr, "WHOIS lookup skipped due to low similarity."))
                         /\ whoisCache' = whoisCache
    /\ UNCHANGED <<phase, storedDomains, probe>>

\* The callback without its resolve: the result is cached, the handler waits on
WhoisCallbackNoResolve(r, ans) ==
    /\ pc[r] = "waiting"
    /\ whoisCache' = CacheSet(whoisCache, frame[r].suspect_domain, CallbackResult(ans))
    /\ UNCHANGED <<phase, storedDomains, probe, pc, frame, res>>

\* The callback of whois.lookup in getCachedWhoisData, and the handler's
\* continuation: the result is cached, the promise resolved, the verdict sent.
WhoisCallback(r, ans) ==
    /\ pc[r] = "waiting"
    /\ LET fr == [frame[r] EXCEPT !.provider = ProviderOutcome(ans)]
           result == CallbackResult(ans)
       IN  /\ whoisCache' = CacheSet(whoisCache, fr.suspect_domain, result)
           /\ Finish(r, fr, Verdict(fr, result))
    /\ UNCHANGED <<phase, storedDomains, probe>>

Next ==
    \/ Startup
    \/ StartupFails
    \/ \E r \in Reqs, body \in RequestBodies : CheckClone(r, body)
    \/ \E r \in Reqs, ans \in WhoisAnswers : WhoisCallback(r, ans)

Spec == Init /\ [][Next]_vars

\* The server of server.js with a provider that invokes the callback of every
\* whois.lookup it was given (timeout: 5000), and an event loop that runs it.
FairSpec == Spec /\ \A r \in Reqs : WF_vars(\E ans \in WhoisAnswers : WhoisCallback(r, ans))

\* ------------------------------------------------------------ part_000

\* The value the whois callback of getWhoisData resolves with
UncachedCallbackResult(ans) ==
    IF ans.err THEN "WHOIS data unavailable due to server error."
    ELSE IF ans.data = "" THEN "No WHOIS data found."
    ELSE ans.data

\* getWhoisData(domain), up to the response or to the wait for the callback:
\* whois.lookup is called, and either throws or returns, its callback pending.
getWhoisData(r, fr) ==
    LET f == [fr EXCEPT !.called = TRUE, !.issued = TRUE] IN
    \E threw \in BOOLEAN :
        IF threw
        THEN Finish(r, [f EXCEPT !.provider = "throw"], Verdict(f, "WHOIS data unavailable."))
        ELSE Await(r, f)

\* app.post("/check-clone") of part_000: the similarity is levenshteinDistance,
\* and getWhoisData is awaited whatever the similarity.
CheckCloneLevenshtein(r, body) ==
    /\ Arrives(r)
    /\ LET v == Validate(body) IN
       CASE v.kind = "rejected" ->
              Finish(r, [NoFrame EXCEPT !.body = body], Rejection(v.error))
         [] v.kind = "verified" ->
              Finish(r, [NoFrame EXCEPT !.body = body, !.suspect_domain = v.suspect_domain],
                     VerifiedVerdict(body, v.suspect_domain))
         [] v.kind = "fuzzy" ->
              LET sims == [i \in 1..Len(storedDomains) |->
                             levenshteinDistance(v.suspect_domain, storedDomains[i])]
              IN  getWhoisData(r, FuzzyFrame(body, v.suspect_domain, sims))
    /\ UNCHANGED <<phase, storedDomains, whoisCache, probe>>

\* The callback of whois.lookup in getWhoisData, and the handler's continuation
WhoisCallbackUncached(r, ans) ==
    /\ pc[r] = "waiting"
    /\ LET fr == [frame[r] EXCEPT !.provider = ProviderOutcome(ans)]
       IN  Finish(r, fr, Verdict(fr, UncachedCallbackResult(ans)))
    /\ UNCHANGED <<phase, storedDomains, whoisCache, probe>>

NextLevenshtein ==
    \/ Startup
    \/ StartupFails
    \/ \E r \in Reqs, body \in RequestBodies : CheckCloneLevenshtein(r, body)
    \/ \E r \in Reqs, ans \in WhoisAnswers : WhoisCallbackUncached(r, ans)

\* The server of part_000
SpecLevenshtein == Init /\ [][NextLevenshtein]_vars

\* ------------------------------------------------------------ the functions alone

\* s repeated n times
RECURSIVE Repeat(_, _)
Repeat(s, n) == IF n = 0 THEN <<>> ELSE s \o Repeat(s, n - 1)

\* Inputs of extractMainDomain: an optional scheme, up to MaxWww "www."
\* labels, a host (lower case, upper case, with a space, empty, "www" without
\* its dot) and an optional port, path or query.
UrlInputs ==
    { scheme \o Repeat(S_www, n) \o host \o suffix :
        scheme \in {<<>>, S_http, S_https},
        n \in 0..MaxWww,
        host \in {D_abio, <<"A","B",".","i","o">>, <<"a"," ","b">>, <<>>, <<"w","w","w">>},
        suffix \in {<<>>, <<"/","p">>, <<"?","q">>, <<":","8","0","/","p">>} }

\* Inputs of levenshteinDistance: the strings over {a, b} of at most MaxLen
\* characters, the empty string among them.
SimilarityInputs == UNION {[1..k -> {"a", "b"}] : k \in 0..MaxLen}

\* extractMainDomain(inputUrl), called on its own
CallExtractMainDomain(inputUrl) ==
    /\ probe = NoProbe
    /\ probe' = [fn |-> "extractMainDomain", a |-> inputUrl, b |-> <<>>,
                 out |-> extractMainDomain(inputUrl), rev |-> <<>>]
    /\ UNCHANGED <<phase, storedDomains, whoisCache, pc, frame, res>>

\* levenshteinDistance(a, b) and levenshteinDistance(b, a), called on their own
CallLevenshteinDistance(a, b) ==
    /\ probe = NoProbe
    /\ probe' = [fn |-> "levenshteinDistance", a |-> a, b |-> b,
                 out |-> levenshteinDistance(a, b), rev |-> levenshteinDistance(b, a)]
    /\ UNCHANGED <<phase, storedDomains, whoisCache, pc, frame, res>>

\* A Set of k distinct domains: a.io, aa.io, aaa.io, ..
StoredOfSize(k) == [i \in 1..k |-> Repeat(<<"a">>, i) \o <<".","i","o">>]

\* Similarities the loop may see: 0, 80 written in two ways, 83.33.. and 100
SimilarityValues == { <<0, 1>>, <<400, 5>>, <<8000, 100>>, <<500, 6>>, <<100, 1>> }

\* The similarity loop of the handler, run on its own over a Set and the
\* similarities of its entries
CallBestMatch(stored, sims) ==
    /\ probe = NoProbe
    /\ probe' = [fn |-> "BestMatch", a |-> stored, b |-> sims,
                 out |-> BestMatch(stored, sims), rev |-> <<>>]
    /\ UNCHANGED <<phase, storedDomains, whoisCache, pc, frame, res>>

NextFunctions ==
    \/ \E k \in 0..MaxStored : \E sims \in [1..k -> SimilarityValues] :
          CallBestMatch(StoredOfSize(k), sims)
    \/ \E inputUrl \in UrlInputs : CallExtractMainDomain(inputUrl)
    \/ \E a, b \in SimilarityInputs : CallLevenshteinDistance(a, b)

\* extractMainDomain, levenshteinDistance and the similarity loop applied to
\* bounded inputs
SpecFunctions == Init /\ [][NextFunctions]_vars

\* ------------------------------------------------------------ properties

\* The branch of the handler request r took
Path(r) == Validate(frame[r].body).kind

\* The verdict sent to request r (when one was sent)
VerdictOf(r) == res[r].verdict[1]

\* The request was answered with a verdict
HasVerdict(r) == pc[r] = "done" /\ res[r].status = 200 /\ res[r].verdict # Null

\* Request r has a whois.lookup in flight for domain d
InFlight(r, d) == pc[r] = "waiting" /\ frame[r].issued /\ frame[r].suspect_domain = d

\* C1: single-flight: for every domain, at most one whois.lookup is in flight
\* at any time, whatever the interleaving of the requests.
C1_SingleFlight ==
    \A r1, r2 \in Reqs :
        (InFlight(r1, frame[r1].suspect_domain) /\ InFlight(r2, frame[r1].suspect_domain))
            => r1 = r2

\* C2: the callers of concurrent lookups of one uncached domain (each called
\* whois.lookup for it) all receive the same whoisData.
C2_ConcurrentCallersAgree ==
    \A r1, r2 \in Reqs :
        (/\ HasVerdict(r1) /\ HasVerdict(r2)
         /\ frame[r1].issued /\ frame[r2].issued
         /\ frame[r1].suspect_domain = frame[r2].suspect_domain)
            => VerdictOf(r1).whoisData = VerdictOf(r2).whoisData

\* C3: cached records are write-once: a value stored in whoisCache for a
\* domain never changes afterwards.
C3_WriteOnce ==
    [][\A d \in DOMAIN whoisCache :
          d \in DOMAIN whoisCache' /\ whoisCache'[d] = whoisCache[d]]_vars

\* The placeholder the claim names for each way the lookup can fail
Placeholder(provider) ==
    CASE provider = "err" -> "WHOIS lookup failed."
      [] provider = "empty" -> "No WHOIS data found."
      [] provider = "throw" -> "WHOIS data unavailable."

\* C4: soft failure: when whois.lookup reports an error (a timeout is one),
\* throws or returns empty data, the request is answered by a 200 verdict
\* that carries the placeholder, and the placeholder is in the cache under
\* the domain when the answer is sent.
C4_SoftFailure ==
    [][\A r \in Reqs :
          (/\ pc[r] # "done" /\ pc'[r] = "done"
           /\ frame'[r].provider \in {"err", "empty", "throw"})
              => /\ res'[r].status = 200
                 /\ res'[r].error = ""
                 /\ res'[r].verdict # Null
                 /\ res'[r].verdict[1].whoisData = Placeholder(frame'[r].provider)
                 /\ frame'[r].suspect_domain \in DOMAIN whoisCache'
                 /\ whoisCache'[frame'[r].suspect_domain] = Placeholder(frame'[r].provider)]_vars

\* C4 witness: one request was answered after an error of the provider, another
\* after a throw of whois.lookup, both with their placeholders, both cached.
C4_Witness ==
    \E r1, r2 \in Reqs :
        /\ HasVerdict(r1) /\ frame[r1].provider = "err"
        /\ VerdictOf(r1).whoisData = "WHOIS lookup failed."
        /\ HasVerdict(r2) /\ frame[r2].provider = "throw"
        /\ VerdictOf(r2).whoisData = "WHOIS data unavailable."
        /\ frame[r1].suspect_domain # frame[r2].suspect_domain
        /\ whoisCache[frame[r1].suspect_domain] = "WHOIS lookup failed."
        /\ whoisCache[frame[r2].suspect_domain] = "WHOIS data unavailable."

\* The score is at most 80 (the comparison written out, on the rational)
AtMost80(h) == h[1] <= 80 * h[2]

\* C5: threshold gating: a request whose best score is at most 80 calls no
\* whois.lookup and its verdict carries the "lookup skipped" placeholder.
C5_ThresholdGating ==
    \A r \in Reqs :
        (pc[r] # "idle" /\ Path(r) = "fuzzy" /\ AtMost80(frame[r].highestSimilarity))
            => /\ ~frame[r].issued
               /\ pc[r] = "done"
               /\ VerdictOf(r).whoisData = "WHOIS lookup skipped due to low similarity."

\* The gating of C5 as server.js has it: the step that takes a request with a
\* best score of at most 80 answers it at once, calls no lookup and leaves
\* the cache as it was.
ServerJsGatesLookup ==
    [][\A r \in Reqs :
          (/\ pc[r] = "idle" /\ pc'[r] # "idle"
           /\ Validate(frame'[r].body).kind = "fuzzy"
           /\ AtMost80(frame'[r].highestSimilarity))
              => /\ pc'[r] = "done"
                 /\ ~frame'[r].called /\ ~frame'[r].issued
                 /\ whoisCache' = whoisCache
                 /\ res'[r].verdict[1].whoisData = "WHOIS lookup skipped due to low similarity."]_vars

\* The input normalizes to a domain of the Reference Set
NormalizesIntoReferenceSet(body) ==
    /\ body.present
    /\ body.suspect_url # <<>>
    /\ ~extractMainDomain(body.suspect_url).null
    /\ extractMainDomain(body.suspect_url).hostname \in Range(storedDomains)

\* What C6 says of the step that takes such a request r
FastPathAnswer(r) ==
    /\ pc'[r] = "done"
    /\ res'[r].status = 200
    /\ res'[r].verdict # Null
    /\ res'[r].verdict[1].isClone = FALSE
    /\ res'[r].verdict[1].matching_accuracy = [whole |-> 100, decimals |-> <<>>]
    /\ res'[r].verdict[1].best_match_domain
           = Some(extractMainDomain(frame'[r].body.suspect_url).hostname)
    /\ res'[r].verdict[1].extracted_domain
           = extractMainDomain(frame'[r].body.suspect_url).hostname
    /\ frame'[r].bestMatchDomain = Null
    /\ frame'[r].highestSimilarity = <<0, 1>>
    /\ ~frame'[r].called /\ ~frame'[r].issued
    /\ whoisCache' = whoisCache

\* C6 as stated: exact-match fast path: a request whose normalized domain is
\* in the Reference Set is answered at once with isClone = false, "100%" and
\* the suspect domain as best match; nothing is scored, no lookup is called,
\* the cache is unchanged.
C6_Original ==
    [][\A r \in Reqs :
          (pc[r] = "idle" /\ pc'[r] # "idle" /\ NormalizesIntoReferenceSet(frame'[r].body))
              => FastPathAnswer(r)]_vars

\* C6 as amended: the same, for a request whose normalized domain is a
\* non-empty element of the Reference Set.
C6_ExactMatchFastPath ==
    [][\A r \in Reqs :
          (/\ pc[r] = "idle" /\ pc'[r] # "idle"
           /\ NormalizesIntoReferenceSet(frame'[r].body)
           /\ extractMainDomain(frame'[r].body.suspect_url).hostname # <<>>)
              => FastPathAnswer(r)]_vars

\* C6 witness: a URL with a scheme, upper case, "www.", a port, a path and a
\* query was answered as the verified domain ab.io, while the cache held a
\* record of another request.
C6_Witness ==
    \E r \in Reqs :
        /\ HasVerdict(r)
        /\ Len(frame[r].body.suspect_url) > Len(D_abio)
        /\ NormalizesIntoReferenceSet(frame[r].body)
        /\ VerdictOf(r).best_match_domain = Some(D_abio)
        /\ VerdictOf(r).matching_accuracy = HundredPercent
        /\ ~VerdictOf(r).isClone
        /\ DOMAIN whoisCache # {}

\* C7: input errors: a missing or empty suspect_url is rejected with "URL is
\* required.", a URL that extractMainDomain cannot normalize (null, or an
\* empty hostname) with "Invalid URL format."; no verdict is produced, no
\* lookup is called, the Reference Set and the cache are unchanged.
C7_InputErrors ==
    [][\A r \in Reqs :
          (pc[r] = "idle" /\ pc'[r] # "idle")
              => LET body == frame'[r].body
                     missing == ~body.present \/ body.suspect_url = <<>>
                     invalid == /\ ~missing
                                /\ \/ extractMainDomain(body.suspect_url).null
                                   \/ extractMainDomain(body.suspect_url).hostname = <<>>
                 IN  /\ missing =>
                          res'[r] = [status |-> 400, error |-> "URL is required.", verdict |-> Null]
                     /\ invalid =>
                          res'[r] = [status |-> 400, error |-> "Invalid URL format.", verdict |-> Null]
                     /\ (missing \/ invalid) =>
                          /\ pc'[r] = "done"
                          /\ ~frame'[r].called /\ ~frame'[r].issued
                          /\ whoisCache' = whoisCache
                          /\ storedDomains' = storedDomains]_vars

\* C7 witness: one request without suspect_url and one with a URL that does
\* not parse were rejected, each with its own error.
C7_Witness ==
    \E r1, r2 \in Reqs :
        /\ pc[r1] = "done" /\ ~frame[r1].body.present
        /\ res[r1].status = 400 /\ res[r1].error = "URL is required."
        /\ pc[r2] = "done" /\ frame[r2].body.present
        /\ extractMainDomain(frame[r2].body.suspect_url).null
        /\ res[r2].status = 400 /\ res[r2].error = "Invalid URL format."

\* The score is above 80 (the comparison written out, on the rational)
Above80(h) == h[1] > 80 * h[2]

\* C8 as stated: threshold boundary: in a verdict of the fuzzy path isClone is
\* true exactly when the best score is above 80 (80 itself gives false), and
\* exactly when whois.lookup was called for the request.
C8_Original ==
    \A r \in Reqs :
        (HasVerdict(r) /\ Path(r) = "fuzzy")
            => /\ VerdictOf(r).isClone <=> Above80(frame[r].highestSimilarity)
               /\ VerdictOf(r).isClone <=> frame[r].issued

\* C8 as amended: isClone is true exactly when the best score is above 80,
\* and exactly when getCachedWhoisData was called for the request;
\* whois.lookup is called only for a request with isClone = true, and for
\* such a request only when a lookup served from the cache did not answer it.
C8_ThresholdBoundary ==
    \A r \in Reqs :
        (HasVerdict(r) /\ Path(r) = "fuzzy")
            => /\ VerdictOf(r).isClone <=> Above80(frame[r].highestSimilarity)
               /\ VerdictOf(r).isClone <=> frame[r].called
               /\ frame[r].issued => VerdictOf(r).isClone
               /\ (VerdictOf(r).isClone /\ ~frame[r].issued) =>
                      /\ frame[r].suspect_domain \in DOMAIN whoisCache
                      /\ \E q \in Reqs :
                            /\ q # r /\ frame[q].issued
                            /\ frame[q].suspect_domain = frame[r].suspect_domain

\* C8 witness: one verdict with a best score of exactly 80, isClone = false
\* and no lookup called, and one with a best score above 80, isClone = true
\* and whois.lookup called.
C8_Witness ==
    \E r1, r2 \in Reqs :
        /\ HasVerdict(r1) /\ Path(r1) = "fuzzy"
        /\ frame[r1].highestSimilarity[1] = 80 * frame[r1].highestSimilarity[2]
        /\ ~VerdictOf(r1).isClone /\ ~frame[r1].called /\ ~frame[r1].issued
        /\ HasVerdict(r2) /\ Path(r2) = "fuzzy"
        /\ Above80(frame[r2].highestSimilarity)
        /\ VerdictOf(r2).isClone /\ frame[r2].called /\ frame[r2].issued

\* The Levenshtein distance, by its recurrence on the strings' last characters
RECURSIVE Lev(_, _)
Lev(a, b) ==
    IF Len(a) = 0 THEN Len(b)
    ELSE IF Len(b) = 0 THEN Len(a)
    ELSE LET a1 == SubSeq(a, 1, Len(a) - 1)
             b1 == SubSeq(b, 1, Len(b) - 1)
         IN  IF a[Len(a)] = b[Len(b)] THEN Lev(a1, b1)
             ELSE 1 + Min2(Lev(a1, b1), Min2(Lev(a1, b), Lev(a, b1)))

\* The similarity C9 states: 100 for two empty strings, 0 for an empty and a
\* non-empty one, else (1 - distance / max length) * 100.
StatedSimilarity(a, b) ==
    IF Len(a) = 0 /\ Len(b) = 0 THEN <<100, 1>>
    ELSE IF Len(a) = 0 \/ Len(b) = 0 THEN <<0, 1>>
    ELSE <<(Max2(Len(a), Len(b)) - Lev(a, b)) * 100, Max2(Len(a), Len(b))>>

\* C9: similarity formula: for every suspect domain the matcher scored and
\* every reference domain, the score levenshteinDistance gives the pair is
\* the stated similarity.
C9_SimilarityFormula ==
    \A r \in Reqs :
        (pc[r] # "idle" /\ Path(r) = "fuzzy")
            => \A i \in 1..Len(storedDomains) :
                  ScoreEq(levenshteinDistance(frame[r].suspect_domain, storedDomains[i]),
                          StatedSimilarity(frame[r].suspect_domain, storedDomains[i]))

\* The formula of C9 on the non-empty reference domains, where
\* levenshteinDistance follows it.
LevenshteinOnNonEmpty ==
    \A r \in Reqs :
        (pc[r] # "idle" /\ Path(r) = "fuzzy")
            => \A i \in 1..Len(storedDomains) :
                  storedDomains[i] # <<>> =>
                  ScoreEq(levenshteinDistance(frame[r].suspect_domain, storedDomains[i]),
                          StatedSimilarity(frame[r].suspect_domain, storedDomains[i]))

\* C10: empty Reference Set: every request with a valid URL gets a verdict
\* with no best match, a score of 0 and isClone = false, and no whois.lookup
\* is called for it.
C10_EmptyReferenceSet ==
    \A r \in Reqs :
        (/\ phase = "listening" /\ storedDomains = <<>>
         /\ pc[r] # "idle" /\ Path(r) # "rejected")
            => /\ ~frame[r].issued
               /\ HasVerdict(r)
               /\ VerdictOf(r).best_match_domain = Null
               /\ VerdictOf(r).matching_accuracy = [whole |-> 0, decimals |-> <<0, 0>>]
               /\ VerdictOf(r).isClone = FALSE
               /\ VerdictOf(r).whoisData = "WHOIS lookup skipped due to low similarity."

\* C10 as server.js has it: with an empty Reference Set the step that takes a
\* request with a valid URL answers it at once, calls no lookup and leaves the
\* cache as it was.
ServerJsEmptyReferenceSet ==
    [][\A r \in Reqs :
          (/\ storedDomains = <<>>
           /\ pc[r] = "idle" /\ pc'[r] # "idle"
           /\ Validate(frame'[r].body).kind # "rejected")
              => /\ pc'[r] = "done"
                 /\ ~frame'[r].called /\ ~frame'[r].issued
                 /\ whoisCache' = whoisCache
                 /\ res'[r].verdict[1].best_match_domain = Null
                 /\ res'[r].verdict[1].matching_accuracy = [whole |-> 0, decimals |-> <<0, 0>>]
                 /\ res'[r].verdict[1].isClone = FALSE]_vars

\* C11: the Reference Set is never modified after the initial load: no step
\* taken while the server listens changes storedDomains, and no step in
\* which a request is taken or answered does, whatever its outcome.
C11_ReferenceSetFrozen ==
    [][/\ phase = "listening" => storedDomains' = storedDomains
       /\ \A r \in Reqs : pc'[r] # pc[r] => storedDomains' = storedDomains]_vars

\* C11 witness: with a non-empty Reference Set, one request was rejected and
\* another got a verdict after a whois.lookup that filled the cache.
C11_Witness ==
    \E r1, r2 \in Reqs :
        /\ storedDomains # <<>>
        /\ pc[r1] = "done" /\ res[r1].status = 400
        /\ HasVerdict(r2) /\ frame[r2].issued
        /\ frame[r2].suspect_domain \in DOMAIN whoisCache

\* The hostname new URL gives for the input, the scheme added when missing
ParsedHostname(inputUrl) ==
    UrlHostname(IF ~StartsWith(inputUrl, S_http) /\ ~StartsWith(inputUrl, S_https)
                THEN S_https \o inputUrl
                ELSE inputUrl).hostname

\* C12 as stated: every domain extractMainDomain produces has no leading
\* "www.", whatever the input URL.
C12_Original ==
    (probe.fn = "extractMainDomain" /\ ~probe.out.null)
        => ~StartsWith(probe.out.hostname, S_www)

\* C12 as amended: extractMainDomain removes exactly one leading "www.": the
\* domain it produces starts with "www." exactly when the parsed hostname
\* starts with "www.www.", and a hostname that starts with "www." is "www."
\* followed by the domain produced.
C12_StripsOneWww ==
    (probe.fn = "extractMainDomain" /\ ~probe.out.null)
        => LET h == ParsedHostname(probe.a) IN
           /\ StartsWith(probe.out.hostname, S_www) <=> StartsWith(h, S_www \o S_www)
           /\ StartsWith(h, S_www) => h = S_www \o probe.out.hostname
           /\ ~StartsWith(h, S_www) => h = probe.out.hostname

\* C12 witness: a URL whose hostname is www.www.ab.io was normalized to
\* www.ab.io.
C12_Witness ==
    /\ probe.fn = "extractMainDomain"
    /\ ~probe.out.null
    /\ ParsedHostname(probe.a) = S_www \o S_www \o D_abio
    /\ probe.out.hostname = S_www \o D_abio

\* C16: symmetry: levenshteinDistance(a, b) equals levenshteinDistance(b, a)
\* for all strings a, b over {a, b} of at most MaxLen characters, the empty
\* string included.
C16_Symmetry ==
    probe.fn = "levenshteinDistance" => ScoreEq(probe.out, probe.rev)

\* C16 witness: two non-empty strings of different lengths, neither a prefix
\* of the other, were compared both ways with the same score below 100.
C16_Witness ==
    /\ probe.fn = "levenshteinDistance"
    /\ Len(probe.a) = 2 /\ Len(probe.b) = 3
    /\ SubSeq(probe.b, 1, 2) # probe.a
    /\ ScoreEq(probe.out, probe.rev)
    /\ probe.out[1] < 100 * probe.out[2]

\* s < t and s = t on the rationals, written out
Below(s, t) == s[1] * t[2] < t[1] * s[2]
Same(s, t) == s[1] * t[2] = t[1] * s[2]

\* The first index whose similarity no other similarity exceeds
FirstMaximum(sims) ==
    CHOOSE i \in 1..Len(sims) :
        /\ \A j \in 1..Len(sims) : ~Below(sims[i], sims[j])
        /\ \A j \in 1..(i - 1) : Below(sims[j], sims[i])

\* C13 as stated: after the scan of a (non-empty) Reference Set the score is
\* the maximum similarity over its entries and the best match is the first
\* entry, in iteration order, that attains it.
C13_Original ==
    (probe.fn = "BestMatch" /\ Len(probe.a) > 0)
        => LET i == FirstMaximum(probe.b) IN
           /\ Same(probe.out.highestSimilarity, probe.b[i])
           /\ probe.out.bestMatchDomain = Some(probe.a[i])

\* C13 as amended: when some entry has a similarity above 0, the score is the
\* maximum similarity and the best match the first entry that attains it;
\* when none has (or the Set is empty), the score is 0 and the best match null.
C13_BestMatchSelection ==
    probe.fn = "BestMatch"
        => IF \E j \in 1..Len(probe.b) : Below(<<0, 1>>, probe.b[j])
           THEN LET i == FirstMaximum(probe.b) IN
                /\ Same(probe.out.highestSimilarity, probe.b[i])
                /\ probe.out.bestMatchDomain = Some(probe.a[i])
           ELSE /\ probe.out.highestSimilarity = <<0, 1>>
                /\ probe.out.bestMatchDomain = Null

\* C13 witness: three entries, the second and third with the same maximum
\* (80, written as 400/5 and as 8000/100), the first below it: the second is
\* the best match.
C13_Witness ==
    /\ probe.fn = "BestMatch"
    /\ Len(probe.a) = 3
    /\ Below(probe.b[1], probe.b[2])
    /\ Same(probe.b[2], probe.b[3]) /\ probe.b[2] # probe.b[3]
    /\ probe.out.bestMatchDomain = Some(probe.a[2])
    /\ Same(probe.out.highestSimilarity, <<80, 1>>)

\* Request r starts in this step, and its domain is in whoisCache as it starts
StartsOnCached(r) ==
    /\ pc[r] = "idle" /\ pc'[r] # "idle"
    /\ frame'[r].suspect_domain \in DOMAIN whoisCache

\* C14: cache hit: a request that starts when its domain is already in
\* whoisCache issues no whois.lookup and leaves the cache unchanged, and if it
\* calls getCachedWhoisData it is answered at once with the stored value.
C14_CacheHit ==
    [][\A r \in Reqs :
         StartsOnCached(r)
            => /\ ~frame'[r].issued
               /\ whoisCache' = whoisCache
               /\ frame'[r].called
                    => /\ pc'[r] = "done" /\ res'[r].status = 200
                       /\ res'[r].verdict[1].whoisData
                             = whoisCache[frame'[r].suspect_domain]]_vars

\* C14 witness: a first request queried the provider for a domain and cached
\* the answer; a later request for the same domain called getCachedWhoisData,
\* issued no query and was answered with the cached value.
C14_Witness ==
    \E r1, r2 \in Reqs :
        /\ r1 < r2
        /\ HasVerdict(r1) /\ frame[r1].issued
        /\ HasVerdict(r2) /\ frame[r2].called /\ ~frame[r2].issued
        /\ frame[r2].suspect_domain = frame[r1].suspect_domain
        /\ frame[r2].suspect_domain \in DOMAIN whoisCache
        /\ VerdictOf(r2).whoisData = whoisCache[frame[r2].suspect_domain]

\* Request r has its response, one of the three the handler sends
Answered(r) == pc[r] = "done" /\ res[r].status \in {200, 400, 500}

\* C15: every request is answered: with a provider that invokes its callback
\* (or throws) for every query, each request that arrived is eventually
\* answered with a 400, a 200 or a 500, its response once sent never changes,
\* and each whois.lookup issued eventually leaves an entry for its domain in
\* whoisCache, whatever other requests for the domain are in progress.
C15_EveryRequestAnswered ==
    /\ \A r \in Reqs : (pc[r] # "idle") ~> Answered(r)
    /\ \A r \in Reqs : [](pc[r] = "waiting" => res[r] = NoResponse)
    /\ [][\A r \in Reqs : Answered(r) => Answered(r)' /\ res'[r] = res[r]]_vars
    /\ \A r \in Reqs : frame[r].issued ~> (frame[r].suspect_domain \in DOMAIN whoisCache)

\* C15 witness: two requests for one domain both queried the provider (the
\* second arrived while the first was waiting), both callbacks came, both
\* requests have their verdict and the domain has its cache entry.
C15_Witness ==
    \E r1, r2 \in Reqs :
        /\ r1 < r2
        /\ frame[r1].suspect_domain = frame[r2].suspect_domain
        /\ frame[r1].issued /\ frame[r2].issued
        /\ frame[r1].provider \in {"err", "empty", "data"}
        /\ frame[r2].provider \in {"err", "empty", "data"}
        /\ Answered(r1) /\ Answered(r2)
        /\ frame[r1].suspect_domain \in DOMAIN whoisCache

\* Request r looked domain d up: d is what its suspect_url normalizes to, the
\* request took the fuzzy path, scored above 80 and called whois.lookup for d
LookedUp(r, d) ==
    /\ pc[r] # "idle"
    /\ Path(r) = "fuzzy"
    /\ Validate(frame[r].body).suspect_domain = d
    /\ frame[r].suspect_domain = d
    /\ Above80(frame[r].highestSimilarity)
    /\ frame[r].issued

\* C17: cache keys: every key of whoisCache is a non-empty normalized suspect
\* domain, is not in the Reference Set, and was looked up by a request whose
\* best score was above 80; the domain of a verified request is never a key,
\* and a request that is verified or scores at most 80 leaves the cache as it
\* was.
C17_CacheKeys ==
    /\ [](\A d \in DOMAIN whoisCache :
             /\ d # <<>>
             /\ d \notin Range(storedDomains)
             /\ \E r \in Reqs : LookedUp(r, d))
    /\ [](\A r \in Reqs :
             (pc[r] # "idle" /\ Path(r) = "verified")
                => frame[r].suspect_domain \notin DOMAIN whoisCache)
    /\ [][\A r \in Reqs :
             (pc[r] = "idle" /\ pc'[r] # "idle" /\ ~Above80(frame'[r].highestSimilarity))
                => whoisCache' = whoisCache]_vars

\* C17 witness: the cache holds a domain a request looked up with a score
\* above 80, while a verified request and a request that scored exactly 80
\* were answered and their domains are not in the cache.
C17_Witness ==
    /\ whoisCache # <<>>
    /\ \E r \in Reqs : HasVerdict(r) /\ LookedUp(r, frame[r].suspect_domain)
                        /\ frame[r].suspect_domain \in DOMAIN whoisCache
    /\ \E r \in Reqs : /\ HasVerdict(r)
                        /\ \/ Path(r) = "verified"
                           \/ Path(r) = "fuzzy" /\ frame[r].highestSimilarity = <<400, 5>>
                        /\ frame[r].suspect_domain \notin DOMAIN whoisCache

====
